---------------------------- MODULE Spec2Model ----------------------------
(***************************************************************************)
(* Model of the selectivity pipeline of gao2018 (pipeline/ephys.py):       *)
(* UnitSelectivity.make and AlignedPsthStimOn.make, run over the keys of   *)
(* one session by one populate process that owns numpy's global random     *)
(* generator; and of the ingestion of a session's trials by                *)
(* TrialSet.make (pipeline/behavior.py).                                   *)
(*                                                                         *)
(* Times are integers (seconds relative to the cue); a rate or a mean is   *)
(* the pair <<numerator, denominator>>, so that a mean over no trials is   *)
(* <<0, 0>> (numpy's NaN).                                                 *)
(***************************************************************************)
EXTENDS Integers, Sequences, FiniteSets, TLC

VARIABLES
    TrialSetType,       \* behavior.TrialSetType row of the session, or "absent"
    shape,              \* the session's trial table, as its block sizes
    UnitSpikeTimes,     \* ephys.UnitSpikeTimes rows: unit_id -> row parameters
    rng,                \* state of numpy.random's global generator
    seed,               \* the state the generator was last seeded with
    UnitSelectivity,    \* the table: key -> inserted row
    AlignedPsthStimOn,  \* the table: key (with photo_stim_id) -> inserted row
    status,             \* how make ended for each key this populate has tried
    runs,               \* log of the UnitSelectivity.make calls that inserted
    psth_calls,         \* <<caller, number of trials>> of every get_psth call
    data,               \* the session file's trials, as TrialSet.make has them
    idx,                \* position of TrialSet.make in data.trialIds
    TrialSet,           \* whether the session's behavior.TrialSet row exists
    TrialSet_Trial,     \* trial ids of the session's TrialSet.Trial rows
    TrialSet_status     \* where TrialSet.make is, or how it ended

\* the tables and inputs of the ingestion of one session's trials
ingestion == <<data, idx, TrialSet, TrialSet_Trial, TrialSet_status>>

vars == <<TrialSetType, shape, UnitSpikeTimes, rng, seed, UnitSelectivity,
          AlignedPsthStimOn, status, runs, psth_calls, data, idx, TrialSet,
          TrialSet_Trial, TrialSet_status>>

---------------------------------------------------------------------------
(* Bounds of the model.                                                    *)

\* number of seeds the generator may be started with
NSeeds == 2
\* number of UnitSelectivity.make calls one behaviour may log
MaxRuns == 3
\* largest per-trial spike count in one one-second bin
MaxRate == 4
\* number of trials in the session file TrialSet.make reads
MaxTrialIds == 3

---------------------------------------------------------------------------
(* Keys and stored data.                                                   *)

Units == {1, 2}

\* behavior.PhotoStimType: the null id, one stimulation id, the excluded id
StimIds == {"0", "1", "NaN"}

Keys == {[unit_id |-> u, trial_condition |-> "All"] : u \in Units}

StimKeys ==
    {[unit_id |-> k.unit_id, trial_condition |-> k.trial_condition,
      photo_stim_id |-> s] : k \in Keys, s \in StimIds}

BaseKey(sk) == [unit_id |-> sk.unit_id, trial_condition |-> sk.trial_condition]

NTrials == shape.nR0 + shape.nL0 + shape.nR1 + shape.nL1

TrialIds == 1..NTrials

\* behavior.TrialSet.Trial of the session, by trial_id: the right and the
\* left reports without stimulation, then those under photostim "1"
Trial(t) ==
    [side |-> IF t <= shape.nR0 THEN "R"
              ELSE IF t <= shape.nR0 + shape.nL0 THEN "L"
              ELSE IF t <= shape.nR0 + shape.nL0 + shape.nR1 THEN "R"
              ELSE "L",
     photo_stim_id |-> IF t <= shape.nR0 + shape.nL0 THEN "0" ELSE "1",
     trial_pole_in_time |-> -3, trial_pole_out_time |-> -2,
     trial_cue_time |-> 0]

\* The spike counts of unit u in trial t at the times -3 (sample), -2 and -1
\* (delay), 0 (response) and 1 (after the response window).
BinCounts(u, t) ==
    LET row == UnitSpikeTimes[u]
        side == Trial(t).side
    IN  IF row.profile = "selective"
        THEN IF side = "R" THEN <<1, 1, t % 2, 3 + (t % 2), 1>>
                           ELSE <<1, 1, t % 2, t % 2, 1>>
        ELSE IF row.profile = "early"
        THEN IF side = "L" THEN <<2 + (t % 2), 1, 0, t % 2, 1>>
                           ELSE <<t % 2, 1, 0, t % 2, 1>>
        ELSE <<1, t % 2, 0, (t * t + t \div 3) % MaxRate, t % 2>>

RECURSIVE Repeat(_, _)
Repeat(x, n) == IF n <= 0 THEN <<>> ELSE <<x>> \o Repeat(x, n - 1)

\* spike_times of unit u restricted to trial t (spike_trials = t)
SpikesOfTrial(u, t) ==
    LET row == UnitSpikeTimes[u]
        c == BinCounts(u, t)
    IN  IF t \in row.lo..row.hi /\ t \in TrialIds
        THEN Repeat(-3, c[1]) \o Repeat(-2, c[2]) \o Repeat(-1, c[3])
             \o Repeat(0, c[4]) \o Repeat(1, c[5])
        ELSE <<>>

\* the values of the spike_trials array of unit u
spike_trials(u) == {t \in TrialIds : SpikesOfTrial(u, t) # <<>>}

SetMin(S) == CHOOSE x \in S : \A y \in S : x <= y
SetMax(S) == CHOOSE x \in S : \A y \in S : x >= y

SeqSet(x) == {x[i] : i \in DOMAIN x}

---------------------------------------------------------------------------
(* The helpers of the pipeline package.                                    *)

\* trial ids of the session in [min_trial, max_trial] with the given report
\* side and the key's photo_stim_id, in primary-key order
get_trials(stim, min_trial, max_trial, side) ==
    SelectSeq([t \in TrialIds |-> t],
              LAMBDA t : /\ min_trial <= t /\ t <= max_trial
                         /\ Trial(t).side = side
                         /\ Trial(t).photo_stim_id = stim)

get_spk_times(u, trial_ids) ==
    [i \in DOMAIN trial_ids |-> SpikesOfTrial(u, trial_ids[i])]

CountIn(spikes, lo, hi) ==
    Cardinality({i \in DOMAIN spikes : lo <= spikes[i] /\ spikes[i] < hi})

\* per trial: counts in the sample, delay and response windows and in the
\* window spanning the three
get_spk_counts(spk_times, trial_ids) ==
    [i \in DOMAIN trial_ids |->
        LET tr == Trial(trial_ids[i])
            s == spk_times[i]
        IN  <<CountIn(s, tr.trial_pole_in_time, tr.trial_pole_out_time),
              CountIn(s, tr.trial_pole_out_time, tr.trial_cue_time),
              CountIn(s, tr.trial_cue_time, tr.trial_cue_time + 1),
              CountIn(s, tr.trial_pole_in_time, tr.trial_cue_time + 1)>>]

RECURSIVE SumUpTo(_, _)
SumUpTo(x, n) == IF n = 0 THEN 0 ELSE x[n] + SumUpTo(x, n - 1)

SumSeq(x) == SumUpTo(x, Len(x))

\* pooled histogram over the bins [bins[b], bins[b+1]), per trial and second
get_psth(spk_times, bins) ==
    [b \in 1..(Len(bins) - 1) |->
        <<SumSeq([i \in DOMAIN spk_times |->
                     CountIn(spk_times[i], bins[b], bins[b + 1])]),
          Len(spk_times)>>]

\* np.mean(counts, axis=0)
mean_axis0(counts) ==
    [c \in 1..4 |-> <<SumSeq([i \in DOMAIN counts |-> counts[i][c]]),
                      Len(counts)>>]

Column(counts, c) == [i \in DOMAIN counts |-> counts[i][c]]

\* a - b of two rates
FracSub(a, b) == <<a[1] * b[2] - b[1] * a[2], a[2] * b[2]>>

\* the comparison with the same operand on both sides
FracGt_same_operand(a, b) == a[1] * a[2] > a[1] * a[2]

\* a > b of two means over at least one trial each
FracGt(a, b) == a[1] * b[2] > b[1] * a[2]

\* 100 * (two-sided 5% critical value of Student's t)^2
TCritSq100(df) ==
    CASE df <= 16 -> 449 [] df = 17 -> 445 [] df = 18 -> 441 [] df = 19 -> 438
      [] df = 20 -> 435 [] df = 21 -> 432 [] df = 22 -> 430 [] df = 23 -> 428
      [] df = 24 -> 426 [] df = 25 -> 424 [] df = 26 -> 423 [] df = 27 -> 421
      [] OTHER -> 420

\* ss.ttest_ind(a, b).pvalue < 0.05: t^2 = D^2 df / (W (n1 + n2)) exceeds the
\* critical value; equal samples (D = 0) give p = 1 or NaN, never < 0.05
ttest_ind_significant(a, b) ==
    LET n1 == Len(a)
        n2 == Len(b)
        S1 == SumSeq(a)
        S2 == SumSeq(b)
        Q1 == SumSeq([i \in DOMAIN a |-> a[i] * a[i]])
        Q2 == SumSeq([i \in DOMAIN b |-> b[i] * b[i]])
        D == S1 * n2 - S2 * n1
        W == n2 * (n1 * Q1 - S1 * S1) + n1 * (n2 * Q2 - S2 * S2)
        df == n1 + n2 - 2
    IN  D * D * df * 100 > TCritSq100(df) * W * (n1 + n2)

BoolInt(b) == IF b THEN 1 ELSE 0

---------------------------------------------------------------------------
(* numpy.random: the global generator and shuffle.                         *)

\* number of states of the generator
RngMod == 1024

rk_next(g) == (g * 5 + 3) % RngMod

\* a draw that also depends on how many rows were computed before
rk_interval_unseeded(max, g) == (g \div 8 + Len(runs)) % (max + 1)

\* a draw from 0..max
rk_interval(max, g) == (g \div 8) % (max + 1)

\* for i in reversed(range(1, n)): j = rk_interval(i); x[i], x[j] = x[j], x[i]
RECURSIVE shuffle_from(_, _, _)
shuffle_from(x, g, i) ==
    IF i < 1 THEN [x |-> x, g |-> g]
    ELSE LET g1 == rk_next(g)
             j == rk_interval(i, g1)
             y == [x EXCEPT ![i + 1] = x[j + 1], ![j + 1] = x[i + 1]]
         IN  shuffle_from(y, g1, i - 1)

shuffle(x, g) == shuffle_from(x, g, Len(x) - 1)

Take(x, n) == SubSeq(x, 1, IF n < Len(x) THEN n ELSE Len(x))
Drop(x, n) == SubSeq(x, n + 1, Len(x))


---------------------------------------------------------------------------
(* UnitSelectivity.make                                                    *)

time_window == <<-4, 2>>

\* np.arange(time_window[0], time_window[1] + step, step), with step 1
bins == [i \in 1..(time_window[2] - time_window[1] + 1) |->
            time_window[1] + i - 1]

\* the guard with the right side off by one
enough_trials_off_by_one(r_trials, l_trials) ==
    Len(l_trials) > 8 /\ Len(r_trials) >= 8

\* line 153: the guard is  not (len(l_trials) > 8 and len(r_trials) > 8)
enough_trials(r_trials, l_trials) == Len(l_trials) > 8 /\ Len(r_trials) > 8

\* lines 185-188
screen_size_of(trial_set_type) ==
    IF trial_set_type = "photo activation" THEN 10 ELSE 5

\* lines 194-205: the slice r_trial_ids[:screen_size]
screen_ids(trial_ids, screen_size) == Take(trial_ids, screen_size)

\* the test slice starting one id late
test_ids_one_late(trial_ids, screen_size) == Drop(trial_ids, screen_size + 1)

\* lines 207-215: the slice r_trial_ids[screen_size:]
test_ids(trial_ids, screen_size) == Drop(trial_ids, screen_size)

\* line 184: fetch1 raises when the session has no TrialSetType row
trial_set_type_missing(trial_set_type) == trial_set_type = "absent"

\* the test written  if selectivity:  on the same dict
selectivity_truthy(selectivity) == DOMAIN selectivity # {}

\* line 232: `selectivity` is key.copy(), a dict; `not selectivity` tests
\* whether that dict is empty
not_selectivity(selectivity) == DOMAIN selectivity = {}

\* the overall flag without the response epoch
any_selectivity_two_epochs(sample, delay, response) ==
    BoolInt(sample = 1 \/ delay = 1)

\* line 243: int(np.any([...]))
any_selectivity(sample, delay, response) ==
    BoolInt(sample = 1 \/ delay = 1 \/ response = 1)

\* get_psth given the spikes of all the trials
psth_all_trial_ids(trial_ids, screen_size) == trial_ids

\* lines 221-222: the trial ids whose spikes get_psth is given
psth_trial_ids(trial_ids, screen_size) == test_ids(trial_ids, screen_size)

\* counts taken over the test slice of the shuffled ids
counted_test_trial_ids(trial_ids, shuffled, screen_size) ==
    test_ids(shuffled, screen_size)

\* lines 156-167: spk_counts_r and spk_counts_l are computed over all the
\* resolved trial ids, before the shuffles of lines 190-191
counted_trial_ids(trial_ids, shuffled, screen_size) == trial_ids

\* lines 160-167 and 193-215: the epoch counts of the given trials
spk_counts_of(u, trial_ids) ==
    get_spk_counts(get_spk_times(u, trial_ids), trial_ids)

\* lines 173-181: the flag of one epoch
epoch_selectivity(spk_counts_r, spk_counts_l, epoch) ==
    BoolInt(ttest_ind_significant(Column(spk_counts_r, epoch),
                                  Column(spk_counts_l, epoch)))

\* lines 223-233
preference_of(selectivity, prefer_r) ==
    IF not_selectivity(selectivity) THEN "No"
    ELSE IF prefer_r THEN "R" ELSE "L"

\* lines 235-258: the row, with the generator's state after the shuffles
\* and the trial ids that went into the test counts and into the PSTHs
selectivity_update(loc, ids, stats) ==
    [row |->
       [r_trial_number |-> Len(loc.r_trials),
        l_trial_number |-> Len(loc.l_trials),
        r_trial_ids |-> ids.r_trial_ids,
        l_trial_ids |-> ids.l_trial_ids,
        sample_selectivity |-> stats.sample_selectivity,
        delay_selectivity |-> stats.delay_selectivity,
        response_selectivity |-> stats.response_selectivity,
        selectivity |-> any_selectivity(stats.sample_selectivity,
                                        stats.delay_selectivity,
                                        stats.response_selectivity),
        time_window |-> time_window,
        bins |-> bins,
        trial_ids_screened_r |-> screen_ids(ids.r_trial_ids, loc.screen_size),
        trial_ids_screened_l |-> screen_ids(ids.l_trial_ids, loc.screen_size),
        psth_r_test |-> stats.psth_r_test,
        psth_l_test |-> stats.psth_l_test,
        psth_prefer_test |->
            IF stats.prefer_r THEN stats.psth_r_test ELSE stats.psth_l_test,
        psth_non_prefer_test |->
            IF stats.prefer_r THEN stats.psth_l_test ELSE stats.psth_r_test,
        psth_diff_test |->
            [b \in DOMAIN stats.psth_r_test |->
                IF stats.prefer_r
                THEN FracSub(stats.psth_r_test[b], stats.psth_l_test[b])
                ELSE FracSub(stats.psth_l_test[b], stats.psth_r_test[b])],
        mean_fr_r_all |-> stats.mean_fr_r,
        mean_fr_l_all |-> stats.mean_fr_l,
        mean_fr_diff_rl_all |->
            [c \in 1..4 |-> FracSub(stats.mean_fr_r[c], stats.mean_fr_l[c])],
        preference |-> preference_of(loc.selectivity, stats.prefer_r)],
     g |-> ids.g,
     r_test |-> test_ids(ids.r_trial_ids, loc.screen_size),
     l_test |-> test_ids(ids.l_trial_ids, loc.screen_size),
     r_psth |-> ids.r_psth,
     l_psth |-> ids.l_psth]

\* lines 160-181 and 193-233, given the shuffled ids
after_shuffle(loc, ids, spk_counts_r, spk_counts_l) ==
    selectivity_update(loc, ids,
        [sample_selectivity |->
             epoch_selectivity(spk_counts_r, spk_counts_l, 1),
         delay_selectivity |-> epoch_selectivity(spk_counts_r, spk_counts_l, 2),
         response_selectivity |->
             epoch_selectivity(spk_counts_r, spk_counts_l, 3),
         mean_fr_r |-> mean_axis0(spk_counts_r),
         mean_fr_l |-> mean_axis0(spk_counts_l),
         psth_r_test |-> get_psth(get_spk_times(loc.unit_id, ids.r_psth), bins),
         psth_l_test |-> get_psth(get_spk_times(loc.unit_id, ids.l_psth), bins),
         prefer_r |->
             FracGt(mean_axis0(spk_counts_of(loc.unit_id,
                        screen_ids(ids.r_trial_ids, loc.screen_size)))[4],
                    mean_axis0(spk_counts_of(loc.unit_id,
                        screen_ids(ids.l_trial_ids, loc.screen_size)))[4])])

\* lines 190-191: random.shuffle(r_trial_ids); random.shuffle(l_trial_ids)
two_shuffles(loc, sh_r, sh_l) ==
    after_shuffle(loc,
                  [r_trial_ids |-> sh_r.x, l_trial_ids |-> sh_l.x,
                   g |-> sh_l.g,
                   r_psth |-> psth_trial_ids(sh_r.x, loc.screen_size),
                   l_psth |-> psth_trial_ids(sh_l.x, loc.screen_size)],
                  spk_counts_of(loc.unit_id,
                      counted_trial_ids(loc.r_trials, sh_r.x, loc.screen_size)),
                  spk_counts_of(loc.unit_id,
                      counted_trial_ids(loc.l_trials, sh_l.x, loc.screen_size)))

shuffle_r_then_l(loc, sh_r) ==
    two_shuffles(loc, sh_r, shuffle(loc.l_trials, sh_r.g))

\* lines 140 and 156-258 for a key whose trials passed the guard, with the
\* generator in state g
UnitSelectivity_row(key, trial_set_type, g, r_trials, l_trials) ==
    shuffle_r_then_l([selectivity |-> key, unit_id |-> key.unit_id,
                      r_trials |-> r_trials, l_trials |-> l_trials,
                      screen_size |-> screen_size_of(trial_set_type)],
                     shuffle(r_trials, g))

\* a make that shuffles the ids before it tests the guard
shuffled_before_return(g) == rk_next(g)

\* lines 153-154: make returns before the shuffles of lines 190-191, so the
\* generator is left in the state make found it in
return_before_shuffle(g) == g

\* UnitSelectivity.make(key), called once per key by populate
UnitSelectivity_make(key) ==
    /\ status[key] = "pending"
    /\ Len(runs) < MaxRuns
    /\ UNCHANGED <<TrialSetType, shape, UnitSpikeTimes, seed,
                   AlignedPsthStimOn>>
    /\ IF ~UnitSpikeTimes[key.unit_id].present
       THEN \* line 144: fetch1 finds no row and raises
            /\ status' = [status EXCEPT ![key] = "error"]
            /\ UNCHANGED <<rng, UnitSelectivity, runs, psth_calls>>
       ELSE LET u == key.unit_id
                min_trial == SetMin(spike_trials(u))
                max_trial == SetMax(spike_trials(u))
                r_trials == get_trials("0", min_trial, max_trial, "R")
                l_trials == get_trials("0", min_trial, max_trial, "L")
            IN  IF ~enough_trials(r_trials, l_trials)
                THEN \* line 154: return
                     /\ status' = [status EXCEPT ![key] = "skipped"]
                     /\ rng' = return_before_shuffle(rng)
                     /\ UNCHANGED <<UnitSelectivity, runs, psth_calls>>
                ELSE IF trial_set_type_missing(TrialSetType)
                THEN \* line 184: fetch1 finds no row and raises
                     /\ status' = [status EXCEPT ![key] = "error"]
                     /\ UNCHANGED <<rng, UnitSelectivity, runs, psth_calls>>
                ELSE LET res == UnitSelectivity_row(key, TrialSetType, rng,
                                                    r_trials, l_trials)
                     IN  /\ rng' = res.g
                         /\ UnitSelectivity' =
                                (key :> res.row) @@ UnitSelectivity
                         /\ status' = [status EXCEPT ![key] = "inserted"]
                         /\ runs' = Append(runs,
                                [key |-> key, rng0 |-> rng,
                                 trial_set_type |-> TrialSetType,
                                 preference |-> res.row.preference,
                                 selectivity |-> res.row.selectivity,
                                 r_trials |-> r_trials,
                                 l_trials |-> l_trials,
                                 r_screen |-> res.row.trial_ids_screened_r,
                                 l_screen |-> res.row.trial_ids_screened_l,
                                 r_test |-> res.r_test,
                                 l_test |-> res.l_test,
                                 r_psth |-> res.r_psth,
                                 l_psth |-> res.l_psth,
                                 row |-> res.row])
                         /\ psth_calls' = psth_calls \cup
                                {<<"UnitSelectivity", Len(res.r_psth)>>,
                                 <<"UnitSelectivity", Len(res.l_psth)>>}

---------------------------------------------------------------------------
(* AlignedPsthStimOn.make                                                  *)

\* line 282
null_or_excluded(photo_stim_id) == photo_stim_id \in {"NaN", "0"}

\* line 289: `selectivity` is the stored flag
baseline_not_selective(selectivity) == selectivity = 0

\* the guard letting 2 trials pass
enough_trials_on_two(r_trials, l_trials) ==
    Len(l_trials) >= 2 /\ Len(r_trials) >= 2

\* line 301: the guard is  not (len(l_trials) > 2 and len(r_trials) > 2)
enough_trials_on(r_trials, l_trials) == Len(l_trials) > 2 /\ Len(r_trials) > 2

\* lines 304-338 for a key that passed the three guards
AlignedPsthStimOn_row(key, base, r_trials, l_trials) ==
    LET u == key.unit_id
        spk_times_r == get_spk_times(u, r_trials)
        spk_times_l == get_spk_times(u, l_trials)
        spk_counts_r == get_spk_counts(spk_times_r, r_trials)
        spk_counts_l == get_spk_counts(spk_times_l, l_trials)
        psth_r == get_psth(spk_times_r, base.bins)
        psth_l == get_psth(spk_times_l, base.bins)
        psth_prefer == IF base.preference = "R" THEN psth_r ELSE psth_l
        psth_non_prefer == IF base.preference = "R" THEN psth_l ELSE psth_r
    IN  [r_trial_number_on |-> Len(r_trials),
         l_trial_number_on |-> Len(l_trials),
         mean_fr_r_on |-> mean_axis0(spk_counts_r),
         mean_fr_l_on |-> mean_axis0(spk_counts_l),
         psth_r_on |-> psth_r,
         psth_l_on |-> psth_l,
         psth_prefer_on |-> psth_prefer,
         psth_non_prefer_on |-> psth_non_prefer,
         psth_diff_on |->
             [b \in DOMAIN psth_prefer |->
                 FracSub(psth_prefer[b], psth_non_prefer[b])]]

\* AlignedPsthStimOn.make(key), called once per key of
\* UnitSelectivity * behavior.PhotoStimType by populate
AlignedPsthStimOn_make(key) ==
    /\ status[key] = "pending"
    /\ BaseKey(key) \in DOMAIN UnitSelectivity
    /\ UNCHANGED <<TrialSetType, shape, UnitSpikeTimes, rng, seed,
                   UnitSelectivity, runs>>
    /\ IF null_or_excluded(key.photo_stim_id)
       THEN \* line 283: return
            /\ status' = [status EXCEPT ![key] = "skipped"]
            /\ UNCHANGED <<AlignedPsthStimOn, psth_calls>>
       ELSE LET base == UnitSelectivity[BaseKey(key)]
                u == key.unit_id
                min_trial == SetMin(spike_trials(u))
                max_trial == SetMax(spike_trials(u))
                r_trials == get_trials(key.photo_stim_id, min_trial,
                                       max_trial, "R")
                l_trials == get_trials(key.photo_stim_id, min_trial,
                                       max_trial, "L")
            IN  IF baseline_not_selective(base.selectivity)
                THEN \* line 290: return
                     /\ status' = [status EXCEPT ![key] = "skipped"]
                     /\ UNCHANGED <<AlignedPsthStimOn, psth_calls>>
                ELSE IF ~enough_trials_on(r_trials, l_trials)
                THEN \* line 302: return
                     /\ status' = [status EXCEPT ![key] = "skipped"]
                     /\ UNCHANGED <<AlignedPsthStimOn, psth_calls>>
                ELSE IF base.preference \notin {"R", "L"}
                THEN \* line 335: psth_prefer was never assigned
                     /\ status' = [status EXCEPT ![key] = "error"]
                     /\ AlignedPsthStimOn' = AlignedPsthStimOn
                     /\ psth_calls' = psth_calls \cup
                            {<<"AlignedPsthStimOn", Len(r_trials)>>,
                             <<"AlignedPsthStimOn", Len(l_trials)>>}
                ELSE /\ status' = [status EXCEPT ![key] = "inserted"]
                     /\ AlignedPsthStimOn' =
                            (key :> AlignedPsthStimOn_row(key, base,
                                                          r_trials, l_trials))
                            @@ AlignedPsthStimOn
                     /\ psth_calls' = psth_calls \cup
                            {<<"AlignedPsthStimOn", Len(r_trials)>>,
                             <<"AlignedPsthStimOn", Len(l_trials)>>}

---------------------------------------------------------------------------
(* The caller: seeding the generator and deleting a row to compute again.  *)

\* numpy.random.seed(s)
random_seed(s) ==
    /\ rng' = s
    /\ seed' = s
    /\ UNCHANGED <<TrialSetType, shape, UnitSpikeTimes, UnitSelectivity,
                   AlignedPsthStimOn, status, runs, psth_calls>>

\* (UnitSelectivity & key).delete(): the row and its dependent rows go, and
\* populate will call make for the key again
UnitSelectivity_delete(key) ==
    /\ key \in DOMAIN UnitSelectivity
    /\ UnitSelectivity' =
           [k \in DOMAIN UnitSelectivity \ {key} |-> UnitSelectivity[k]]
    /\ AlignedPsthStimOn' =
           [k \in {sk \in DOMAIN AlignedPsthStimOn : BaseKey(sk) # key} |->
               AlignedPsthStimOn[k]]
    /\ status' = [k \in DOMAIN status |->
                    IF k = key \/ (k \in StimKeys /\ BaseKey(k) = key)
                    THEN "pending" ELSE status[k]]
    /\ UNCHANGED <<TrialSetType, shape, UnitSpikeTimes, rng, seed, runs,
                   psth_calls>>

---------------------------------------------------------------------------
(* behavior.TrialSet.make: the ingestion of one session's trials.          *)

\* the variables TrialSet.make leaves alone
analysis == <<TrialSetType, shape, UnitSpikeTimes, rng, seed,
              UnitSelectivity, AlignedPsthStimOn, status, runs, psth_calls>>

\* lines 93-94: itrial_idx is empty, `not itrial_idx.size` holds
no_samples(tr) == tr.samples = 0

\* lines 88-90: one of the four properties is NaN, or good_trial is 0
nan_or_bad_trial(tr) == tr.isnan \/ tr.good_trial = 0

\* line 92: np.squeeze of the indices of a single sample is 0-dimensional,
\* and lines 105-106 index it
zero_dimensional(tr) == tr.samples = 1

\* the position after trial i, and whether the loop of line 72 goes on
loop_status(i) == IF i > Len(data) THEN "done" ELSE "loop"

\* lines 60-70: the session file is read and the master row inserted
TrialSet_make_insert1 ==
    /\ TrialSet_status = "pending"
    /\ TrialSet' = TRUE
    /\ idx' = 1
    /\ TrialSet_status' = loop_status(1)
    /\ UNCHANGED <<data, TrialSet_Trial>>
    /\ UNCHANGED analysis

\* lines 72-108: one pass of the loop over data.trialIds; populate runs
\* make in a transaction, so an exception takes the inserted rows back
TrialSet_make_trial ==
    /\ TrialSet_status = "loop"
    /\ UNCHANGED data
    /\ UNCHANGED analysis
    /\ IF nan_or_bad_trial(data[idx])
       THEN \* line 90: continue
            /\ idx' = idx + 1
            /\ TrialSet_status' = loop_status(idx + 1)
            /\ UNCHANGED <<TrialSet, TrialSet_Trial>>
       ELSE IF no_samples(data[idx])
       THEN \* line 94: return
            /\ TrialSet_status' = "returned"
            /\ UNCHANGED <<idx, TrialSet, TrialSet_Trial>>
       ELSE IF zero_dimensional(data[idx])
       THEN \* line 105: itrial_idx[0] raises IndexError
            /\ TrialSet_status' = "error"
            /\ TrialSet' = FALSE
            /\ TrialSet_Trial' = {}
            /\ UNCHANGED idx
       ELSE \* line 108: insert1
            /\ TrialSet_Trial' = TrialSet_Trial \cup {idx}
            /\ idx' = idx + 1
            /\ TrialSet_status' = loop_status(idx + 1)
            /\ UNCHANGED TrialSet

---------------------------------------------------------------------------
(* The session a populate run starts from.                                 *)

TrialSetTypes == {"photo activation", "photo inhibition", "absent"}

\* block sizes: right and left reports without stimulation (9 passes the
\* guard, 8 does not), then under photostim "1" (3 passes its guard, 2 does
\* not)
Shapes == {[nR0 |-> 9, nL0 |-> 9, nR1 |-> 3, nL1 |-> 3],
           [nR0 |-> 9, nL0 |-> 12, nR1 |-> 2, nL1 |-> 3],
           [nR0 |-> 12, nL0 |-> 8, nR1 |-> 3, nL1 |-> 3],
           [nR0 |-> 12, nL0 |-> 12, nR1 |-> 3, nL1 |-> 3]}

\* a unit's row: absent, or recorded over all trials or all but the first
UnitRows(sh) ==
    LET n == sh.nR0 + sh.nL0 + sh.nR1 + sh.nL1
    IN  {[present |-> FALSE, lo |-> 1, hi |-> n, profile |-> "flat"],
         [present |-> TRUE, lo |-> 1, hi |-> n, profile |-> "selective"],
         [present |-> TRUE, lo |-> 1, hi |-> n, profile |-> "flat"],
         [present |-> TRUE, lo |-> 2, hi |-> n, profile |-> "early"]}

Init ==
    /\ TrialSetType \in TrialSetTypes
    /\ shape \in Shapes
    /\ UnitSpikeTimes \in [Units -> UnitRows(shape)]
    /\ rng \in 0..(NSeeds - 1)
    /\ seed = rng
    /\ UnitSelectivity = <<>>
    /\ AlignedPsthStimOn = <<>>
    /\ status = [k \in Keys \cup StimKeys |-> "pending"]
    /\ runs = <<>>
    /\ psth_calls = {}
    /\ data = <<>>
    /\ idx = 0
    /\ TrialSet = TRUE
    /\ TrialSet_Trial = {}
    /\ TrialSet_status = "done"

\* populate of UnitSelectivity over the session's keys
Next ==
    /\ \E key \in Keys : UnitSelectivity_make(key)
    /\ UNCHANGED ingestion

Spec == Init /\ [][Next]_vars

\* a session whose second unit has no UnitSpikeTimes row
InitOneUnit == Init /\ ~UnitSpikeTimes[2].present

\* populate of UnitSelectivity, then of AlignedPsthStimOn
NextStim ==
    \/ /\ \E key \in Keys : UnitSelectivity_make(key)
       /\ UNCHANGED ingestion
    \/ /\ \E key \in StimKeys : AlignedPsthStimOn_make(key)
       /\ UNCHANGED ingestion

SpecStim == InitOneUnit /\ [][NextStim]_vars

\* populate of UnitSelectivity with a caller that seeds the generator and
\* deletes rows to have them computed again
NextRerun ==
    \/ /\ \E key \in Keys : UnitSelectivity_make(key)
       /\ UNCHANGED ingestion
    \/ /\ \E s \in 0..(NSeeds - 1) : random_seed(s)
       /\ UNCHANGED ingestion
    \/ /\ \E key \in Keys : UnitSelectivity_delete(key)
       /\ UNCHANGED ingestion

\* a session with 12 right and 12 left reports whose second unit has no row
InitRerun == InitOneUnit /\ shape.nR0 = 12 /\ shape.nL0 = 12

SpecRerun == InitRerun /\ [][NextRerun]_vars

\* a session whose two units both have a row and whose TrialSetType row
\* exists, populated for UnitSelectivity and AlignedPsthStimOn
InitBatch ==
    /\ Init
    /\ TrialSetType # "absent"
    /\ \A u \in Units : UnitSpikeTimes[u].present

SpecBatch == InitBatch /\ [][NextStim]_vars

\* what the session file holds for one trial: whether one of pole-in,
\* pole-out, cue time and photostim type is NaN, the good-trial flag, and
\* the number of time-series samples of the trial
TrialData == [isnan : BOOLEAN, good_trial : 0..1, samples : 0..2]

\* a session file not ingested yet, before any unit of it is
InitTrialSet ==
    /\ data \in [1..MaxTrialIds -> TrialData]
    /\ idx = 0
    /\ TrialSet = FALSE
    /\ TrialSet_Trial = {}
    /\ TrialSet_status = "pending"
    /\ TrialSetType = "absent"
    /\ shape = [nR0 |-> 9, nL0 |-> 9, nR1 |-> 3, nL1 |-> 3]
    /\ UnitSpikeTimes = [u \in Units |->
           [present |-> FALSE, lo |-> 1, hi |-> 24, profile |-> "flat"]]
    /\ rng = 0
    /\ seed = 0
    /\ UnitSelectivity = <<>>
    /\ AlignedPsthStimOn = <<>>
    /\ status = [k \in Keys \cup StimKeys |-> "pending"]
    /\ runs = <<>>
    /\ psth_calls = {}

\* populate of behavior.TrialSet for the session
NextTrialSet ==
    \/ TrialSet_make_insert1
    \/ TrialSet_make_trial

SpecTrialSet == InitTrialSet /\ [][NextTrialSet]_vars

---------------------------------------------------------------------------
(* What the claims read.                                                   *)

\* the number of trials get_trials resolves for a key's unit, a stim id and
\* a report side
Resolved(key, stim, side) ==
    get_trials(stim, SetMin(spike_trials(key.unit_id)),
               SetMax(spike_trials(key.unit_id)), side)

Present(key) == UnitSpikeTimes[key.unit_id].present

Tried(key) == status[key] # "pending"

Min(a, b) == IF a < b THEN a ELSE b

---------------------------------------------------------------------------
\* C1: a UnitSelectivity row exists only for a key whose no-stimulation
\* right and left trial sets both have more than 8 trials; a key tried with
\* 8 or fewer trials on a side was skipped (make returned) and has no row.
C1_BaselineGuard ==
    \A key \in Keys :
        Present(key) =>
            LET nr == Len(Resolved(key, "0", "R"))
                nl == Len(Resolved(key, "0", "L"))
            IN  /\ key \in DOMAIN UnitSelectivity => nr > 8 /\ nl > 8
                /\ (Tried(key) /\ (nr <= 8 \/ nl <= 8)) =>
                       /\ status[key] = "skipped"
                       /\ key \notin DOMAIN UnitSelectivity

\* a key with exactly 8 right trials and more than 8 left trials was skipped
C1_Witness ==
    \E key \in Keys :
        /\ Present(key)
        /\ status[key] = "skipped"
        /\ Len(Resolved(key, "0", "R")) = 8
        /\ Len(Resolved(key, "0", "L")) > 8

---------------------------------------------------------------------------
\* C2: in every UnitSelectivity row, an overall selectivity flag of 0 comes
\* with the preference "No"; a preference "R" or "L" implies selectivity 1.
C2_NoPreferenceWithoutSelectivity ==
    \A key \in DOMAIN UnitSelectivity :
        UnitSelectivity[key].selectivity = 0 =>
            UnitSelectivity[key].preference = "No"

---------------------------------------------------------------------------
\* C3: in every run of make that reached the split, for the right and for
\* the left side, the screening ids and the test ids have no id in common,
\* together they are the resolved ids of the side, each once, and the
\* number of screening ids is min(screen_size, number of resolved ids), with
\* screen_size 10 for "photo activation" and 5 otherwise.
SplitOk(trial_set_type, trials, screen, test) ==
    /\ SeqSet(screen) \cap SeqSet(test) = {}
    /\ SeqSet(screen) \cup SeqSet(test) = SeqSet(trials)
    /\ Len(screen) + Len(test) = Len(trials)
    /\ Len(screen) = Min(IF trial_set_type = "photo activation"
                         THEN 10 ELSE 5, Len(trials))

C3_ScreenTestSplit ==
    \A i \in DOMAIN runs :
        /\ SplitOk(runs[i].trial_set_type, runs[i].r_trials,
                   runs[i].r_screen, runs[i].r_test)
        /\ SplitOk(runs[i].trial_set_type, runs[i].l_trials,
                   runs[i].l_screen, runs[i].l_test)
        /\ runs[i].key \in DOMAIN UnitSelectivity =>
               /\ UnitSelectivity[runs[i].key].trial_ids_screened_r
                      = runs[i].r_screen
               /\ UnitSelectivity[runs[i].key].trial_ids_screened_l
                      = runs[i].l_screen

\* a photo-activation run whose shuffle moved ids and that split 12 right
\* trials into 10 screening ids and 2 test ids
C3_Witness ==
    /\ \E i \in DOMAIN runs :
           /\ runs[i].trial_set_type = "photo activation"
           /\ Len(runs[i].r_trials) = 12
           /\ Len(runs[i].r_screen) = 10
           /\ Len(runs[i].r_test) = 2
           /\ runs[i].r_screen # SubSeq(runs[i].r_trials, 1, 10)

---------------------------------------------------------------------------
\* C4: every call of get_psth, from UnitSelectivity.make or from
\* AlignedPsthStimOn.make, is given the spikes of at least one trial.
C4_PsthTrialsNonEmpty ==
    \A call \in psth_calls : call[2] > 0

---------------------------------------------------------------------------
\* C5: in every UnitSelectivity row the overall flag is the OR of the
\* sample, delay and response flags, and each of these is 1 exactly when the
\* t-test of that epoch's counts, right trials against left trials, is
\* significant at 0.05.
EpochTest(key, epoch) ==
    ttest_ind_significant(
        Column(spk_counts_of(key.unit_id, Resolved(key, "0", "R")), epoch),
        Column(spk_counts_of(key.unit_id, Resolved(key, "0", "L")), epoch))

C5_SelectivityIsOr ==
    \A key \in DOMAIN UnitSelectivity :
        LET row == UnitSelectivity[key]
        IN  /\ row.selectivity \in {0, 1}
            /\ row.selectivity = 1 <=>
                   \/ row.sample_selectivity = 1
                   \/ row.delay_selectivity = 1
                   \/ row.response_selectivity = 1
            /\ row.sample_selectivity = 1 <=> EpochTest(key, 1)
            /\ row.delay_selectivity = 1 <=> EpochTest(key, 2)
            /\ row.response_selectivity = 1 <=> EpochTest(key, 3)

\* a row whose only significant epoch is the response, and a row whose only
\* significant epoch is the sample
C5_Witness ==
    /\ \E key \in DOMAIN UnitSelectivity :
           /\ UnitSelectivity[key].selectivity = 1
           /\ UnitSelectivity[key].sample_selectivity = 0
           /\ UnitSelectivity[key].delay_selectivity = 0
           /\ UnitSelectivity[key].response_selectivity = 1
    /\ \E key \in DOMAIN UnitSelectivity :
           /\ UnitSelectivity[key].selectivity = 1
           /\ UnitSelectivity[key].sample_selectivity = 1
           /\ UnitSelectivity[key].response_selectivity = 0

---------------------------------------------------------------------------
\* C6: an AlignedPsthStimOn row exists only for a stim id other than "0"
\* and "NaN", a baseline UnitSelectivity row with selectivity 1, and more
\* than 2 right and more than 2 left trials under that stim id; a key tried
\* in any other case was skipped (make returned) and has no row.
StimOnAllowed(key) ==
    /\ key.photo_stim_id \notin {"0", "NaN"}
    /\ BaseKey(key) \in DOMAIN UnitSelectivity
    /\ UnitSelectivity[BaseKey(key)].selectivity = 1
    /\ Len(Resolved(key, key.photo_stim_id, "R")) > 2
    /\ Len(Resolved(key, key.photo_stim_id, "L")) > 2

C6_StimOnGuards ==
    \A key \in StimKeys :
        /\ key \in DOMAIN AlignedPsthStimOn => StimOnAllowed(key)
        /\ (Tried(key) /\ ~StimOnAllowed(key)) =>
               /\ status[key] = "skipped"
               /\ key \notin DOMAIN AlignedPsthStimOn
        /\ (Tried(key) /\ StimOnAllowed(key)) =>
               key \in DOMAIN AlignedPsthStimOn

\* one session state with a row for stim id "1", and the keys of "0" and
\* "NaN" skipped
C6_Witness ==
    \E key \in DOMAIN AlignedPsthStimOn :
        /\ key.photo_stim_id = "1"
        /\ AlignedPsthStimOn[key].r_trial_number_on = 3
        /\ \A other \in StimKeys :
               (BaseKey(other) = BaseKey(key) /\ other # key) =>
                   status[other] = "skipped"

---------------------------------------------------------------------------
\* C7 as claimed: in every UnitSelectivity row the PSTHs, the epoch mean
\* rates and the selectivity flags are computed from the test-subset trials
\* only, so no screening trial contributes to a reported statistic (stated
\* for the rows whose test subsets are not empty).
RowOfRun(i) == UnitSelectivity[runs[i].key]

TestCounts(i, side) ==
    spk_counts_of(runs[i].key.unit_id,
                  IF side = "R" THEN runs[i].r_test ELSE runs[i].l_test)

AllCounts(i, side) ==
    spk_counts_of(runs[i].key.unit_id,
                  IF side = "R" THEN runs[i].r_trials ELSE runs[i].l_trials)

TestPsth(i, side) ==
    get_psth(get_spk_times(runs[i].key.unit_id,
                 IF side = "R" THEN runs[i].r_test ELSE runs[i].l_test),
             bins)

PsthFromTestOnly(i) ==
    /\ SeqSet(runs[i].r_psth) \cap SeqSet(runs[i].r_screen) = {}
    /\ SeqSet(runs[i].l_psth) \cap SeqSet(runs[i].l_screen) = {}
    /\ RowOfRun(i).psth_r_test = TestPsth(i, "R")
    /\ RowOfRun(i).psth_l_test = TestPsth(i, "L")
    /\ {RowOfRun(i).psth_prefer_test, RowOfRun(i).psth_non_prefer_test}
           = {TestPsth(i, "R"), TestPsth(i, "L")}

C7_AllStatisticsFromTestOnly ==
    \A i \in DOMAIN runs :
      (runs[i].r_test # <<>> /\ runs[i].l_test # <<>>) =>
        /\ PsthFromTestOnly(i)
        /\ RowOfRun(i).mean_fr_r_all = mean_axis0(TestCounts(i, "R"))
        /\ RowOfRun(i).mean_fr_l_all = mean_axis0(TestCounts(i, "L"))
        /\ \A epoch \in 1..3 :
               <<RowOfRun(i).sample_selectivity,
                 RowOfRun(i).delay_selectivity,
                 RowOfRun(i).response_selectivity>>[epoch]
                   = BoolInt(ttest_ind_significant(
                                 Column(TestCounts(i, "R"), epoch),
                                 Column(TestCounts(i, "L"), epoch)))

\* C7 as amended: in every UnitSelectivity row the four PSTHs are computed
\* from the test-subset trials only (no screening trial is among the trials
\* given to get_psth), while the epoch mean rates and the counts given to
\* the selectivity tests are those of all resolved trials, the screening
\* trials included.
C7_PsthFromTestRatesFromAll ==
    \A i \in DOMAIN runs :
        /\ PsthFromTestOnly(i)
        /\ RowOfRun(i).mean_fr_r_all = mean_axis0(AllCounts(i, "R"))
        /\ RowOfRun(i).mean_fr_l_all = mean_axis0(AllCounts(i, "L"))
        /\ \A epoch \in 1..3 :
               <<RowOfRun(i).sample_selectivity,
                 RowOfRun(i).delay_selectivity,
                 RowOfRun(i).response_selectivity>>[epoch]
                   = BoolInt(ttest_ind_significant(
                                 Column(AllCounts(i, "R"), epoch),
                                 Column(AllCounts(i, "L"), epoch)))

\* a row computed with 5 screening and 7 test trials on each side, whose
\* PSTH over the test trials differs from the PSTH over all trials
C7_Witness ==
    \E i \in DOMAIN runs :
        /\ Len(runs[i].r_screen) = 5 /\ Len(runs[i].r_test) = 7
        /\ Len(runs[i].l_screen) = 5 /\ Len(runs[i].l_test) = 7
        /\ RowOfRun(i).psth_r_test
               # get_psth(get_spk_times(runs[i].key.unit_id,
                                        runs[i].r_trials), bins)
        /\ RowOfRun(i).mean_fr_r_all[1][2] = 12

---------------------------------------------------------------------------
\* C8: two runs of UnitSelectivity.make on the same key (so the same unit,
\* trial data and condition), each started with the generator in the same
\* state, give the same preference and the same screened trial ids.
C8_SameSeedSameScreen ==
    \A i, j \in DOMAIN runs :
        (runs[i].key = runs[j].key /\ runs[i].rng0 = runs[j].rng0) =>
            /\ runs[i].preference = runs[j].preference
            /\ runs[i].r_screen = runs[j].r_screen
            /\ runs[i].l_screen = runs[j].l_screen

\* the same key computed twice from the same seeded state, and once more
\* from another state with another outcome
C8_Witness ==
    \E i, j, k \in DOMAIN runs :
        /\ i < j
        /\ runs[i].key = runs[j].key /\ runs[j].key = runs[k].key
        /\ runs[i].rng0 = runs[j].rng0
        /\ runs[k].rng0 # runs[i].rng0
        /\ runs[k].r_screen # runs[i].r_screen
        /\ runs[k].preference # runs[i].preference

---------------------------------------------------------------------------
\* the row make computes for a key from the seeded generator state
RowWhenFirst(key) ==
    UnitSelectivity_row(key, TrialSetType, seed, Resolved(key, "0", "R"),
                        Resolved(key, "0", "L")).row

SameOutcome(row, other) ==
    /\ row.preference = other.preference
    /\ SeqSet(row.trial_ids_screened_r) = SeqSet(other.trial_ids_screened_r)
    /\ SeqSet(row.trial_ids_screened_l) = SeqSet(other.trial_ids_screened_l)
    /\ row.psth_r_test = other.psth_r_test
    /\ row.psth_l_test = other.psth_l_test

\* C9: what make emits for a key is the same for every processing order of
\* the batch: its preference, its screened subsets and its test PSTHs are
\* those make gives when the key is the first one processed after the
\* generator was seeded.
C9_RowIndependentOfOrder ==
    \A key \in DOMAIN UnitSelectivity :
        SameOutcome(UnitSelectivity[key], RowWhenFirst(key))

---------------------------------------------------------------------------
MissingUpstream(key) == ~Present(key) \/ TrialSetType = "absent"

\* C10: a key tried while its unit's spike arrays or the session's
\* trial-set-type row are absent ended in an error and has no row; it was
\* never skipped silently.
C10_MissingDataAlwaysAnError ==
    \A key \in Keys :
        (Tried(key) /\ MissingUpstream(key)) =>
            /\ status[key] = "error"
            /\ key \notin DOMAIN UnitSelectivity

---------------------------------------------------------------------------
\* the generator state after the make logged as runs[i]
GeneratorAfter(i) ==
    UnitSelectivity_row(runs[i].key, runs[i].trial_set_type, runs[i].rng0,
                        runs[i].r_trials, runs[i].l_trials).g

\* the makes that inserted drew from the generator one after the other,
\* starting from the seeded state, whatever keys were skipped in between
SkipsLeaveGenerator ==
    /\ \A i \in DOMAIN runs :
           runs[i].rng0 = IF i = 1 THEN seed ELSE GeneratorAfter(i - 1)
    /\ rng = IF runs = <<>> THEN seed ELSE GeneratorAfter(Len(runs))

\* a step in which make returns early for the key
SkipStep(key) == status[key] = "pending" /\ status'[key] = "skipped"

\* C11: a step in which make skips a key (insufficient trials; null or
\* excluded stim id, non-selective baseline, too few stim trials) raises no
\* error, inserts no row and changes neither the generator nor the status
\* of any other key, so the other keys stay to be processed; and the makes
\* that insert draw from the generator as if the skipped keys were not in
\* the batch.
C11_SkipAffectsOnlyItsTask ==
    /\ []SkipsLeaveGenerator
    /\ [][\A key \in Keys \cup StimKeys :
             SkipStep(key) =>
                 /\ rng' = rng
                 /\ UnitSelectivity' = UnitSelectivity
                 /\ AlignedPsthStimOn' = AlignedPsthStimOn
                 /\ runs' = runs
                 /\ \A k \in (Keys \cup StimKeys) \ {key} :
                        status'[k] = status[k]]_vars

\* one unit's key was skipped for its 8 right trials and the other unit's
\* row was inserted; of that unit's stim keys the null and the excluded one
\* were skipped and the third has its row
C11_Witness ==
    \E key, other \in Keys :
        /\ status[key] = "skipped"
        /\ Len(Resolved(key, "0", "R")) = 8
        /\ other \in DOMAIN UnitSelectivity
        /\ \A sk \in StimKeys :
               BaseKey(sk) = other =>
                   IF null_or_excluded(sk.photo_stim_id)
                   THEN status[sk] = "skipped"
                   ELSE sk \in DOMAIN AlignedPsthStimOn

---------------------------------------------------------------------------
\* the mean over the screened trials of a side of the 4th count component,
\* as <<sum, number of trials>>
ScreenMean4(i, side) ==
    LET ids == IF side = "R" THEN runs[i].r_screen ELSE runs[i].l_screen
        counts == spk_counts_of(runs[i].key.unit_id, ids)
    IN  <<SumSeq([k \in DOMAIN counts |-> counts[k][4]]), Len(counts)>>

\* the screening mean of the side is strictly greater than the other side's
ScreenHigher(i, side) ==
    LET a == ScreenMean4(i, side)
        b == ScreenMean4(i, IF side = "R" THEN "L" ELSE "R")
    IN  a[2] > 0 /\ b[2] > 0 /\ a[1] * b[2] > b[1] * a[2]

PreferredIs(i, side) ==
    LET row == RowOfRun(i)
        prefer == IF side = "R" THEN row.psth_r_test ELSE row.psth_l_test
        non_prefer == IF side = "R" THEN row.psth_l_test ELSE row.psth_r_test
    IN  /\ row.preference = side
        /\ row.psth_prefer_test = prefer
        /\ row.psth_non_prefer_test = non_prefer

\* C12: in every row, the preference is "R" when the mean over the screened
\* right trials of the 4th count component is strictly greater than that
\* over the screened left trials and "L" when it is strictly smaller; the
\* preferred and non-preferred PSTHs are the right and left test PSTHs
\* assigned accordingly, and psth_diff_test is, bin by bin, the preferred
\* minus the non-preferred PSTH.
C12_PreferenceByScreening ==
    \A i \in DOMAIN runs :
        /\ ScreenHigher(i, "R") => PreferredIs(i, "R")
        /\ ScreenHigher(i, "L") => PreferredIs(i, "L")
        /\ DOMAIN RowOfRun(i).psth_diff_test
               = DOMAIN RowOfRun(i).psth_prefer_test
        /\ \A b \in DOMAIN RowOfRun(i).psth_diff_test :
               LET p == RowOfRun(i).psth_prefer_test[b]
                   n == RowOfRun(i).psth_non_prefer_test[b]
               IN  RowOfRun(i).psth_diff_test[b]
                       = <<p[1] * n[2] - n[1] * p[2], p[2] * n[2]>>

\* two rows were computed, one with the higher screening mean and the
\* preference on the right, one with both on the left, each with a test
\* PSTH over at least one trial and a non-zero difference in some bin
C12_Witness ==
    \E i, j \in DOMAIN runs :
        /\ ScreenHigher(i, "R") /\ RowOfRun(i).preference = "R"
        /\ ScreenHigher(j, "L") /\ RowOfRun(j).preference = "L"
        /\ \A k \in {i, j} :
               /\ runs[k].r_test # <<>> /\ runs[k].l_test # <<>>
               /\ \E b \in DOMAIN RowOfRun(k).psth_diff_test :
                      RowOfRun(k).psth_diff_test[b][1] # 0

---------------------------------------------------------------------------
\* the fields of a row that the selectivity testing gives
TestedPart(row) ==
    [sample_selectivity |-> row.sample_selectivity,
     delay_selectivity |-> row.delay_selectivity,
     response_selectivity |-> row.response_selectivity,
     selectivity |-> row.selectivity,
     r_trial_number |-> row.r_trial_number,
     l_trial_number |-> row.l_trial_number,
     mean_fr_r_all |-> row.mean_fr_r_all,
     mean_fr_l_all |-> row.mean_fr_l_all,
     mean_fr_diff_rl_all |-> row.mean_fr_diff_rl_all]

\* C13: two runs of UnitSelectivity.make on the same key (the same unit and
\* trial data), whatever state the generator was in and so whatever the
\* two shuffles gave, emit the same three epoch flags, the same overall
\* flag, the same trial counts and the same all-trial mean rates.
C13_ShuffleDoesNotReachTests ==
    \A i, j \in DOMAIN runs :
        runs[i].key = runs[j].key =>
            TestedPart(runs[i].row) = TestedPart(runs[j].row)

\* the same key computed from two generator states: the shuffles gave other
\* screened trials, another preference, another stored id order and another
\* test PSTH
C13_Witness ==
    \E i, j \in DOMAIN runs :
        /\ runs[i].key = runs[j].key
        /\ runs[i].rng0 # runs[j].rng0
        /\ SeqSet(runs[i].r_screen) # SeqSet(runs[j].r_screen)
        /\ runs[i].row.preference # runs[j].row.preference
        /\ runs[i].row.psth_r_test # runs[j].row.psth_r_test
        /\ runs[i].row.r_trial_ids # runs[j].row.r_trial_ids

---------------------------------------------------------------------------
\* the stim key's row has the PSTHs of the baseline's preferred side and of
\* the other side, and their difference
PreferAssigned(sk) ==
    LET row == AlignedPsthStimOn[sk]
        preference == UnitSelectivity[BaseKey(sk)].preference
    IN  /\ preference \in {"R", "L"}
        /\ row.psth_prefer_on
               = IF preference = "R" THEN row.psth_r_on ELSE row.psth_l_on
        /\ row.psth_non_prefer_on
               = IF preference = "R" THEN row.psth_l_on ELSE row.psth_r_on
        /\ DOMAIN row.psth_diff_on = DOMAIN row.psth_prefer_on

\* C14: no AlignedPsthStimOn.make that passed its three guards found
\* psth_prefer unassigned: no stim key ended in an error, every inserted
\* stim row has its preferred and non-preferred PSTHs from a baseline
\* preference "R" or "L", and no UnitSelectivity row has selectivity 1
\* with a preference other than "R" or "L".
C14_PreferAlwaysAssigned ==
    /\ \A sk \in StimKeys : status[sk] # "error"
    /\ \A sk \in DOMAIN AlignedPsthStimOn : PreferAssigned(sk)
    /\ \A key \in DOMAIN UnitSelectivity :
           UnitSelectivity[key].selectivity = 1 =>
               UnitSelectivity[key].preference \in {"R", "L"}

\* a stim key passed the three guards and has its row, computed with a
\* selective baseline that prefers the left side
C14_Witness ==
    \E sk \in DOMAIN AlignedPsthStimOn :
        /\ UnitSelectivity[BaseKey(sk)].selectivity = 1
        /\ UnitSelectivity[BaseKey(sk)].preference = "L"
        /\ AlignedPsthStimOn[sk].psth_prefer_on
               = AlignedPsthStimOn[sk].psth_l_on
        /\ AlignedPsthStimOn[sk].psth_l_on # AlignedPsthStimOn[sk].psth_r_on

---------------------------------------------------------------------------
\* the trial is one TrialSet.make is to insert a row for
Eligible(tr) == ~tr.isnan /\ tr.good_trial # 0 /\ tr.samples >= 1

TrialSet_ended == TrialSet_status \in {"done", "returned", "error"}

\* C15: the Trial rows come after the master row and are rows of trials
\* with non-NaN properties, a non-zero good-trial flag and at least one
\* sample, inserted in the order of the trial ids; and once TrialSet.make
\* has ended, every such trial has its row, whatever the other trials of
\* the session are.
C15_EveryValidTrialInserted ==
    /\ TrialSet_Trial # {} => TrialSet
    /\ \A t \in TrialSet_Trial : t < idx /\ Eligible(data[t])
    /\ TrialSet_ended =>
           \A t \in DOMAIN data : Eligible(data[t]) => t \in TrialSet_Trial

=============================================================================
